---- MODULE Spec2Model ----
(***************************************************************************)
(* Model of src/wayback.py: the token-bucket RateLimiter and the crawl     *)
(* orchestrator main() with its worker pool, in-memory buffer, processed   *)
(* set, output table (OUT_CSV) and checkpoint file (CHECKPOINT_FILE).      *)
(*                                                                         *)
(* The process is an asyncio program: code between two awaits runs without *)
(* interleaving of other tasks (variable cpu), but the process can be      *)
(* killed between any two file operations, and the files outlive it.       *)
(***************************************************************************)
EXTENDS Integers, Sequences, FiniteSets, TLC

\* ---------------------------------------------------------------- bounds
\* Number of distinct snapshot URLs that can appear in the input file.
NUrls == 3
\* Longest input list (the column may repeat a URL).
MaxUrls == NUrls
\* Number of process launches (runs) followed.
MaxRuns == 2
\* SAVE_EVERY (50 in the source, line 35), scaled down.
SAVE_EVERY == 2
\* CONCURRENCY (12 in the source, line 33), scaled down.
CONCURRENCY == 2

\* Tasks sharing the RateLimiter.
NCallers == 2
\* Largest rate (requests per minute) a RateLimiter is constructed with.
MaxRpm == 3
\* Seconds between two readings of the clock.
TickSec == 15
\* Last clock reading followed, in seconds.
MaxTime == 120
\* The 60 of "self.capacity / 60" (line 202): seconds per minute.
SecondsPerMinute == 60
\* Longest list of items one worker is followed through.
MaxItems == 2
\* for attempt in range(1, 8): seven attempts.
MaxAttempts == 7
\* The base of the backoff 1.8 ** attempt, in tenths.
BaseTenths == 18

URLS == 1..NUrls
Workers == 1..CONCURRENCY
\* cpu value for the main task; 0 is "event loop idle".
MainId == CONCURRENCY + 1

\* ------------------------------------------------------------ cell values
\* Python None / pandas NaN.
None == "<None>"
\* Strings pandas.read_csv turns into NaN by default (those the model uses).
NaValues == {"", "None"}

\* DataFrame.to_csv: a null cell is written as the empty string.
ToCsvCell(v) == IF v = None THEN "" ELSE v
\* pandas.read_csv(dtype=str): an NA string is read as NaN, the rest kept.
ReadCsvCell(t) == IF t \in NaValues THEN None ELSE t

ToCsvRow(r) == [snapshot_url |-> r.snapshot_url, error |-> ToCsvCell(r.error)]
ReadCsvRow(r) == [snapshot_url |-> r.snapshot_url, error |-> ReadCsvCell(r.error)]

MapSeq(s, Op(_)) == [i \in 1..Len(s) |-> Op(s[i])]

\* ---------------------------------------------------------------- state
VARIABLES
  urls,        \* the input list read from INPUT_CSV (same file every run)
  out_csv,     \* OUT_CSV on disk: [exists, hdr, rows]; hdr = FALSE is a 0-byte file
  checkpoint,  \* CHECKPOINT_FILE on disk: [exists, valid, keys]
  mainpc,      \* position of main(): off, join, final, ..., done, crashed, killed
  processed,   \* the in-memory processed set
  buffer,      \* the in-memory record buffer
  queue,       \* asyncio.Queue contents
  unfinished,  \* asyncio.Queue._unfinished_tasks
  wpc,         \* position of each queue_worker task
  wurl,        \* the url each worker is handling (0: none)
  lock,        \* holder of the asyncio.Lock (0: free)
  sem,         \* free slots of the asyncio.Semaphore
  cpu,         \* the task running synchronous code (0: event loop idle)
  df_tmp,      \* the DataFrame being written by to_csv
  run,         \* history: number of launches so far
  loaded,      \* history: the set loaded from the checkpoint at this launch
  rows0,       \* history: the rows of OUT_CSV at this launch
  fetched,     \* history: fetch() invocations per URL in this run
  written,     \* history: URLs whose record a completed to_csv of this run wrote
  cleanHist,   \* history: every earlier process end was a normal exit or a
               \* kill right after a completed periodic flush
  capacity,    \* RateLimiter.capacity (rpm)
  tokens,      \* RateLimiter.tokens, in sixtieths of a token
  last,        \* RateLimiter.last, in seconds
  now,         \* time.time(), in seconds since the limiter was constructed
  rlpc,        \* position of each task calling acquire(): idle, try, sleep
  grants,      \* history: times of the acquire() returns of the last 60 seconds
  granted,     \* history: number of acquire() returns so far
  ioFailed,    \* history: a write of OUT_CSV or of the checkpoint raised in this run
  badpages,    \* history: URLs whose fetched page made the extractor raise, this run
  fpc,         \* position of one call of fetch(): idle, acquire, get, sleep, returned
  fattempt,    \* fetch: the loop variable attempt
  flast,       \* fetch: the local variable last (the last exception caught)
  fresult,     \* fetch: the returned pair (html, err)
  fstatus,     \* history: status of the last response (0: the attempt raised)
  freqs,       \* history: number of session.get requests issued
  fsleeps,     \* history: the backoff sleeps, in units of 10^-MaxAttempts second
  fonly503,    \* history: every failed attempt so far was answered 503
  ftransient,  \* history: every attempt so far failed with a retried status or raised
  fcause,      \* history: what the last failed attempt failed with
  ritem,       \* one work item: its snapshot URL, [ts, slash]
  rres,        \* what fetch returned for it: the pair (html, err)
  rrec,        \* the record the worker built for it (RNone: not built yet)
  rpc          \* position of the worker on that item: fetched, built

vars == <<urls, out_csv, checkpoint, mainpc, processed, buffer, queue, unfinished,
          wpc, wurl, lock, sem, cpu, df_tmp, run, loaded, rows0, fetched, written,
          cleanHist, capacity, tokens, last, now, rlpc, grants, granted,
          ioFailed, badpages, fpc, fattempt, flast, fresult, fstatus, freqs,
          fsleeps, fonly503, ftransient, fcause, ritem, rres, rrec, rpc>>

disk == <<out_csv, checkpoint>>
hist == <<run, loaded, rows0, fetched, written, cleanHist>>
rl == <<capacity, tokens, last, now, rlpc, grants, granted>>
orch == <<urls, out_csv, checkpoint, mainpc, processed, buffer, queue, unfinished,
          wpc, wurl, lock, sem, cpu, df_tmp, run, loaded, rows0, fetched, written,
          cleanHist, ioFailed, badpages, ritem, rres, rrec, rpc>>
rv == <<ritem, rres, rrec, rpc>>
hist2 == <<ioFailed, badpages>>
ft == <<fpc, fattempt, flast, fresult, fstatus, freqs, fsleeps, fonly503, ftransient,
        fcause>>

\* --------------------------------------------------------------- helpers
NoFile == [exists |-> FALSE, hdr |-> FALSE, rows |-> <<>>]
NoCkpt == [exists |-> FALSE, valid |-> FALSE, keys |-> {}]

Range(s) == {s[i] : i \in 1..Len(s)}
Keys(rows) == {rows[i].snapshot_url : i \in 1..Len(rows)}
Count(rows, u) == Cardinality({i \in 1..Len(rows) : rows[i].snapshot_url = u})
Distinct(s) == \A i, j \in 1..Len(s) : s[i] = s[j] => i = j

SeqsUpTo(S, n) == UNION {[1..k -> S] : k \in 0..n}
InputLists == SeqsUpTo(URLS, MaxUrls)

Stopped == mainpc \in {"off", "done", "crashed", "killed"}

\* What fetch(session, url) can return: (html, err).
FetchResults ==
  { <<"<html>", None>>,      \* 200 with a body
    <<None, "HTTP 404">>,    \* a status that is not retried
    <<None, "None">> }       \* seven retried statuses: str(last) with last = None

\* A page on which the extraction code of a parser raises.
Malformed == "<malformed>"
ExtractorRaises(html) == html = Malformed

\* What a call hands to its caller: a record, or an exception that propagates.
Returned(rec) == [raised |-> FALSE, rec |-> rec]
Propagated == [raised |-> TRUE, rec |-> [snapshot_url |-> 0, error |-> None]]

\* parse_2023 / parse_2024 / parse_2025: snapshot_url is set before the try;
\* the extraction runs inside try / except Exception, which prints and falls
\* through to `return record`, so the partial record comes back with no error.
parse_year(html, url) ==
  IF ExtractorRaises(html)
  THEN Returned([snapshot_url |-> url, error |-> None])
  ELSE Returned([snapshot_url |-> url, error |-> None])

\* A dispatch in which neither the parser nor dispatch_parse catches.
dispatch_parse_uncaught(html, url) ==
  IF ExtractorRaises(html)
  THEN Propagated
  ELSE Returned([snapshot_url |-> url, error |-> None])

\* dispatch_parse(html, url), reduced to the fields the orchestrator keeps:
\* whatever still escapes a parser is turned into a record with error set.
dispatch_parse(html, url) ==
  LET r == parse_year(html, url)
  IN  IF r.raised
      THEN Returned([snapshot_url |-> url, error |-> "exception"])
      ELSE r

\* `if html:` is true for a non-empty body.
HasBody(res) == res[1] # None /\ res[1] # ""

\* The record a worker builds from fetch's return.
WorkerRecord(url, res) ==
  IF HasBody(res)
  THEN dispatch_parse(res[1], url).rec
  ELSE [snapshot_url |-> url, error |-> res[2]]

\* The worker's call of dispatch_parse lets an exception through.
WorkerRaises(url, res) == HasBody(res) /\ dispatch_parse(res[1], url).raised

\* Outcomes of fetch when some pages are malformed.
ParseResults ==
  { <<"<html>", None>>,
    <<Malformed, None>>,
    <<None, "HTTP 404">> }

\* ------------------------------------------------------- the semaphore
\* A semaphore whose acquire takes no slot.
SemAcquireFree(s) == s

\* asyncio.Semaphore(CONCURRENCY): `async with sem` takes a slot on entry and
\* gives it back on exit, by return or by exception.
SemAcquire(s) == s - 1
SemRelease(s) == s + 1

\* -------------------------------------------------------- file operations
\* A flush that writes the buffer alone, without the rows already on disk.
MergedFrameNoOld == buffer
\* pd.concat([pd.read_csv(OUT_CSV, dtype=str), DataFrame(buffer)]) or DataFrame(buffer)
MergedFrame ==
  IF out_csv.exists THEN MapSeq(out_csv.rows, ReadCsvRow) \o buffer ELSE buffer
\* pd.read_csv raises EmptyDataError on a file with no header line.
ReadRaises == out_csv.exists /\ ~out_csv.hdr
\* to_csv opens OUT_CSV for writing: the file is truncated first.
CsvOpened == [exists |-> TRUE, hdr |-> FALSE, rows |-> <<>>]
\* to_csv has written the header and every row.
CsvWritten(df) == [exists |-> TRUE, hdr |-> TRUE, rows |-> MapSeq(df, ToCsvRow)]
\* open(CHECKPOINT_FILE, "w"): the file is truncated first.
CkptOpened == [exists |-> TRUE, valid |-> FALSE, keys |-> {}]
\* A dump that writes an empty list.
CkptWrittenEmpty(keys) == [exists |-> TRUE, valid |-> TRUE, keys |-> {}]
\* json.dump(list(processed), f) and the close of f.
CkptWritten(keys) == [exists |-> TRUE, valid |-> TRUE, keys |-> keys]

\* ---------------------------------------------------------- RateLimiter
Callers == 1..NCallers
Min(a, b) == IF a <= b THEN a ELSE b

\* One token, in the unit of the variable tokens.
OneToken == SecondsPerMinute

\* A refill without the cap.
RefillUncapped(cap, tok, delta) == tok + delta * cap
\* min(self.capacity, self.tokens + delta * (self.capacity / 60)), line 202.
Refill(cap, tok, delta) == Min(cap * OneToken, tok + delta * cap)
\* if self.tokens >= 1, line 204.
HasToken(tok) == tok >= OneToken
\* A return that leaves the token in the bucket.
TakeTokenKept(tok) == tok
\* self.tokens -= 1, line 205.
TakeToken(tok) == tok - OneToken

\* The acquire() returns that are less than 60 seconds old at time t.
InWindow(g, t) == SelectSeq(g, LAMBDA x : t - x < SecondsPerMinute)

\* RateLimiter.__init__(rpm), lines 190-194, with no caller yet.
RLConstructed(rpm) ==
  /\ capacity = rpm
  /\ tokens = rpm * OneToken
  /\ last = 0
  /\ now = 0
  /\ rlpc = [c \in Callers |-> "idle"]
  /\ grants = <<>>
  /\ granted = 0

\* A task calls RATE_LIMITER.acquire() (line 280).
RL_Call(c) ==
  /\ rlpc[c] = "idle"
  /\ rlpc' = [rlpc EXCEPT ![c] = "try"]
  /\ UNCHANGED <<orch, ft, capacity, tokens, last, now, grants, granted>>

\* One turn of acquire's loop, lines 198-205: the lock is free whenever a task
\* asks for it (no await while it is held), so the turn is one step.
RL_Try(c) ==
  /\ rlpc[c] = "try"
  /\ last' = now
  /\ UNCHANGED <<orch, ft, capacity, now>>
  /\ IF HasToken(Refill(capacity, tokens, now - last))
     THEN /\ tokens' = TakeToken(Refill(capacity, tokens, now - last))
          /\ rlpc' = [rlpc EXCEPT ![c] = "idle"]
          /\ grants' = Append(InWindow(grants, now), now)
          /\ granted' = granted + 1
     ELSE /\ tokens' = Refill(capacity, tokens, now - last)
          /\ rlpc' = [rlpc EXCEPT ![c] = "sleep"]
          /\ UNCHANGED <<grants, granted>>

\* await asyncio.sleep(0.05) is over (line 206).
RL_Wake(c) ==
  /\ rlpc[c] = "sleep"
  /\ rlpc' = [rlpc EXCEPT ![c] = "try"]
  /\ UNCHANGED <<orch, ft, capacity, tokens, last, now, grants, granted>>

\* The clock advances.
RL_Tick ==
  /\ now + TickSec <= MaxTime
  /\ now' = now + TickSec
  /\ grants' = InWindow(grants, now')
  /\ UNCHANGED <<orch, ft, capacity, tokens, last, rlpc, granted>>

\* RateLimiter(rpm), lines 190-194: the fields are set from rpm as given;
\* no value of rpm is refused.
RL_Init(rpm) ==
  /\ \A c \in Callers : rlpc[c] = "none"
  /\ capacity' = rpm
  /\ tokens' = rpm * OneToken
  /\ last' = now
  /\ rlpc' = [c \in Callers |-> "idle"]
  /\ UNCHANGED <<orch, ft, now, grants, granted>>

\* ------------------------------------------------------------------ fetch
\* What the server can answer, and what session.get can raise.
Statuses == {200, 404, 429, 500, 502, 503, 504}
Exceptions == {"TimeoutError", "ClientConnectorError"}
Bodies == {"<html>", ""}

\* str(last) for the values last can hold; str(asyncio.TimeoutError()) is "".
StrOf(e) ==
  CASE e = None -> "None"
    [] e = "TimeoutError" -> ""
    [] e = "ClientConnectorError" -> "Cannot connect to host"

\* f"HTTP {r.status}", line 289.
HttpErr(s) ==
  CASE s = 404 -> "HTTP 404"
    [] s = 429 -> "HTTP 429"
    [] s = 500 -> "HTTP 500"
    [] s = 502 -> "HTTP 502"
    [] s = 503 -> "HTTP 503"
    [] s = 504 -> "HTTP 504"

\* A fetch that retries whatever is not a 200.
RetryableAny(s) == s # 200
\* if r.status in (429, 502, 503), line 286.
Retryable(s) == s \in {429, 502, 503}

RECURSIVE Pow(_, _)
Pow(b, n) == IF n = 0 THEN 1 ELSE b * Pow(b, n - 1)

\* A sleep of 1.8 seconds whatever the attempt.
BackoffFlat(attempt) == BaseTenths * Pow(10, MaxAttempts - 1)
\* 1.8 ** attempt (lines 287 and 292), in units of 10^-MaxAttempts second.
Backoff(attempt) == Pow(BaseTenths, attempt) * Pow(10, MaxAttempts - attempt)

\* A retry that goes to session.get without asking the limiter.
LoopTopNoAcquire == "get"
\* Every iteration of the for loop starts with RATE_LIMITER.acquire()
\* (lines 280-282): the position a new attempt starts at.
LoopTop == "acquire"

\* fetch(session, url) is called: last = None, attempt = 1 (lines 279-280).
F_Call ==
  /\ fpc = "idle"
  /\ fpc' = LoopTop
  /\ fattempt' = 1
  /\ flast' = None
  /\ UNCHANGED <<orch, rl, fresult, fstatus, freqs, fsleeps, fonly503, ftransient,
                 fcause>>

\* await RATE_LIMITER.acquire() (line 282): one turn of acquire's loop; without
\* a token the task sleeps 0.05 s and takes another turn.
F_Acquire ==
  /\ fpc = "acquire"
  /\ last' = now
  /\ IF HasToken(Refill(capacity, tokens, now - last))
     THEN /\ tokens' = TakeToken(Refill(capacity, tokens, now - last))
          /\ grants' = Append(InWindow(grants, now), now)
          /\ granted' = granted + 1
          /\ fpc' = "get"
     ELSE /\ tokens' = Refill(capacity, tokens, now - last)
          /\ UNCHANGED <<grants, granted, fpc>>
  /\ UNCHANGED <<orch, capacity, now, rlpc, fattempt, flast, fresult, fstatus, freqs,
                 fsleeps, fonly503, ftransient, fcause>>

\* session.get answers with status s (lines 283-289).
F_Status(s) ==
  /\ fpc = "get"
  /\ freqs' = freqs + 1
  /\ fstatus' = s
  /\ fonly503' = (fonly503 /\ s \in {200, 503})
  /\ ftransient' = (ftransient /\ s \in {429, 502, 503})
  /\ fcause' = IF s = 200 THEN fcause ELSE HttpErr(s)
  /\ IF s = 200
     THEN /\ \E b \in Bodies : fresult' = <<b, None>>
          /\ fpc' = "returned"
     ELSE IF Retryable(s)
          THEN /\ fpc' = "sleep"
               /\ UNCHANGED fresult
          ELSE /\ fresult' = <<None, HttpErr(s)>>
               /\ fpc' = "returned"
  /\ UNCHANGED <<orch, rl, fattempt, flast, fsleeps>>

\* session.get (or reading the body) raises e: last = e (lines 290-291).
F_Raise(e) ==
  /\ fpc = "get"
  /\ freqs' = freqs + 1
  /\ fstatus' = 0
  /\ fonly503' = FALSE
  /\ fcause' = StrOf(e)
  /\ flast' = e
  /\ fpc' = "sleep"
  /\ UNCHANGED <<orch, rl, fattempt, fresult, fsleeps, ftransient>>

\* await asyncio.sleep(1.8 ** attempt) is over (lines 287-288, 292): the next
\* attempt, or after the last one `return None, str(last)` (line 293).
F_Sleep ==
  /\ fpc = "sleep"
  /\ fsleeps' = Append(fsleeps, Backoff(fattempt))
  /\ IF fattempt < MaxAttempts
     THEN /\ fattempt' = fattempt + 1
          /\ fpc' = LoopTop
          /\ UNCHANGED fresult
     ELSE /\ fresult' = <<None, StrOf(flast)>>
          /\ fpc' = "returned"
          /\ UNCHANGED fattempt
  /\ UNCHANGED <<orch, rl, flast, fstatus, freqs, fonly503, ftransient, fcause>>

\* ------------------------------------------------- the record of one item
\* Snapshot URLs: "https://web.archive.org/web/<ts>/http://site/" (slash),
\* "https://web.archive.org/web/<ts>id_/http://site/" (the timestamp followed
\* by a modifier, not by a slash), and a URL with no /web/<digits> part.
Timestamps ==
  {"20221231235959", "20230101000000", "20240615120000", "20250301080000"}
UrlItems ==
  {[ts |-> t, slash |-> b] : t \in Timestamps, b \in BOOLEAN}
    \cup {[ts |-> "", slash |-> TRUE]}
NoItem == [ts |-> "", slash |-> FALSE]

\* ts[:4] for the timestamps above.
YearOf(ts) ==
  CASE ts = "20221231235959" -> "2022"
    [] ts = "20230101000000" -> "2023"
    [] ts = "20240615120000" -> "2024"
    [] ts = "20250301080000" -> "2025"

\* re.search(r"/web/(\d{14})/", url): (ts[:4], ts), or (None, None) when the
\* fourteen digits are not followed by a slash or are not there (lines 221-226).
extract_year_ts(url) ==
  IF url.ts # "" /\ url.slash
  THEN <<YearOf(url.ts), url.ts>>
  ELSE <<None, None>>

\* init_record(year): every column None, then the year (lines 228-232).
\* name and other stand for the extracted columns, name being extracted first.
init_record(year) ==
  [snapshot_url |-> None, snapshot_timestamp |-> None, snapshot_year |-> year,
   error |-> None, name |-> None, other |-> None]

\* parse_2023 / parse_2024 / parse_2025 on full records: the provenance
\* columns are set before the try; an exception in the extraction is printed
\* and the record comes back with the columns extracted so far and no error.
parse_rec(year, html, url) ==
  LET base == [init_record(year) EXCEPT
                 !.snapshot_url = url,
                 !.snapshot_timestamp = extract_year_ts(url)[2]]
  IN  IF ExtractorRaises(html)
      THEN Returned([base EXCEPT !.name = "name"])
      ELSE Returned([base EXCEPT !.name = "name", !.other = "other"])

\* f"unsupported year {year}", line 2088.
UnsupportedYear(year) ==
  CASE year = None -> "unsupported year None"
    [] year = "2022" -> "unsupported year 2022"

\* dispatch_parse on full records (lines 2077-2094): the records it builds
\* itself get snapshot_url and error, nothing else.
dispatch_parse_rec(html, url) ==
  LET year == extract_year_ts(url)[1]
  IN  IF year \in {"2023", "2024", "2025"}
      THEN LET r == parse_rec(year, html, url)
           IN  IF r.raised
               THEN Returned([init_record(year) EXCEPT
                                !.snapshot_url = url, !.error = "exception"])
               ELSE r
      ELSE Returned([init_record(year) EXCEPT
                       !.snapshot_url = url, !.error = UnsupportedYear(year)])

\* The full record a worker builds from fetch's return (lines 2130-2137).
worker_record(url, res) ==
  IF HasBody(res)
  THEN dispatch_parse_rec(res[1], url).rec
  ELSE [init_record(extract_year_ts(url)[1]) EXCEPT
          !.snapshot_url = url,
          !.snapshot_timestamp = extract_year_ts(url)[2],
          !.error = res[2]]

\* Every pair fetch can return: a body (any page, the empty one included) with
\* no error, the text of a status that is not retried, or str(last).
FetchReturns ==
  {<<b, None>> : b \in Bodies \cup {Malformed}}
    \cup {<<None, HttpErr(s)>> : s \in {t \in Statuses : t # 200 /\ ~Retryable(t)}}
    \cup {<<None, StrOf(e)>> : e \in Exceptions \cup {None}}

\* No item is being looked at.
RecIdle ==
  /\ ritem = NoItem
  /\ rres = <<None, None>>
  /\ rrec = init_record(None)
  /\ rpc = "off"

\* worker: lines 2130-2137, the record is built from what fetch returned.
R_Build ==
  /\ rpc = "fetched"
  /\ rrec' = worker_record(ritem, rres)
  /\ rpc' = "built"
  /\ UNCHANGED <<urls, out_csv, checkpoint, mainpc, processed, buffer, queue,
                 unfinished, wpc, wurl, lock, sem, cpu, df_tmp, run, loaded, rows0,
                 fetched, written, cleanHist, ioFailed, badpages, rl, ft, ritem, rres>>

\* json.load(open(CHECKPOINT_FILE)) raises on a truncated file (line 2104).
LoadRaises == checkpoint.exists /\ ~checkpoint.valid
\* A start that ignores the checkpoint file.
LoadNothing == {}
\* set(json.load(open(CHECKPOINT_FILE))) if os.path.exists(...) else set().
LoadCheckpoint == IF checkpoint.exists THEN checkpoint.keys ELSE {}

\* A skip test that never skips.
IsDoneNever(proc, u) == FALSE
\* if url in processed: return (lines 2124-2125).
IsDone(proc, u) == u \in proc

\* An append that drops the record.
BufferAppendLost(buf, rec) == buf
\* buffer.append(rec) (line 2140).
BufferAppend(buf, rec) == Append(buf, rec)

\* A worker that marks only the items whose fetch gave a body.
MarkDoneOnSuccess(proc, u, res) == IF HasBody(res) THEN proc \cup {u} ELSE proc
\* processed.add(url) (line 2141), whatever fetch returned.
MarkDone(proc, u, res) == proc \cup {u}

\* ----------------------------------------------------------------- Init
OrchInit ==
  /\ urls \in InputLists
  /\ out_csv = NoFile
  /\ checkpoint = NoCkpt
  /\ mainpc = "off"
  /\ processed = {}
  /\ buffer = <<>>
  /\ queue = <<>>
  /\ unfinished = 0
  /\ wpc = [w \in Workers |-> "none"]
  /\ wurl = [w \in Workers |-> 0]
  /\ lock = 0
  /\ sem = CONCURRENCY
  /\ cpu = 0
  /\ df_tmp = <<>>
  /\ run = 0
  /\ loaded = {}
  /\ rows0 = <<>>
  /\ fetched = [u \in URLS |-> 0]
  /\ written = {}
  /\ cleanHist = TRUE
  /\ ioFailed = FALSE
  /\ badpages = {}
  /\ RecIdle

\* No call of fetch has been made.
FetchIdle ==
  /\ fpc = "idle"
  /\ fattempt = 0
  /\ flast = None
  /\ fresult = <<None, None>>
  /\ fstatus = 0
  /\ freqs = 0
  /\ fsleeps = <<>>
  /\ fonly503 = TRUE
  /\ ftransient = TRUE
  /\ fcause = None

\* The orchestrator, with the module-level RATE_LIMITER of line 208 untouched.
Init ==
  /\ OrchInit
  /\ RLConstructed(1)
  /\ FetchIdle

\* Memory of a process that is not running.
MemoryGone ==
  /\ processed' = {}
  /\ buffer' = <<>>
  /\ queue' = <<>>
  /\ unfinished' = 0
  /\ wpc' = [w \in Workers |-> "none"]
  /\ wurl' = [w \in Workers |-> 0]
  /\ lock' = 0
  /\ sem' = CONCURRENCY
  /\ cpu' = 0
  /\ df_tmp' = <<>>

\* ------------------------------------------------------------- main()
\* Launch: lines 2099-2167, up to the first await of main (queue.join()).
Start ==
  /\ Stopped
  /\ run < MaxRuns
  /\ run' = run + 1
  /\ rows0' = out_csv.rows
  /\ fetched' = [u \in URLS |-> 0]
  /\ written' = {}
  /\ loaded' = checkpoint.keys
  /\ ioFailed' = FALSE
  /\ badpages' = {}
  /\ UNCHANGED <<rl, ft, rv, urls, disk, cleanHist>>
  /\ IF LoadRaises
     THEN \* json.load raises on the truncated file: the process exits
          /\ mainpc' = "crashed"
          /\ MemoryGone
     ELSE /\ mainpc' = "join"
          /\ processed' = LoadCheckpoint
          /\ buffer' = <<>>
          /\ queue' = urls
          /\ unfinished' = Len(urls)
          /\ wpc' = [w \in Workers |-> "ready"]
          /\ wurl' = [w \in Workers |-> 0]
          /\ lock' = 0
          /\ sem' = CONCURRENCY
          /\ cpu' = 0
          /\ df_tmp' = <<>>

\* queue_worker: one turn of the while loop up to the await of fetch
\* (lines 2160-2161, 2124-2128), or the exit of the loop.
QW_Next(w) ==
  /\ mainpc = "join"
  /\ wpc[w] = "ready"
  /\ cpu \in {0, w}
  /\ UNCHANGED <<rl, ft, rv, hist2, urls, disk, mainpc, processed, buffer, lock, df_tmp,
                 run, loaded, rows0, written, cleanHist>>
  /\ IF queue = <<>>
     THEN /\ wpc' = [wpc EXCEPT ![w] = "exited"]
          /\ cpu' = 0
          /\ UNCHANGED <<queue, unfinished, wurl, sem, fetched>>
     ELSE /\ queue' = Tail(queue)
          /\ IF IsDone(processed, Head(queue))
             THEN \* worker returns at once; finally: queue.task_done()
                  /\ unfinished' = unfinished - 1
                  /\ cpu' = w
                  /\ UNCHANGED <<wpc, wurl, sem, fetched>>
             ELSE /\ sem > 0
                  /\ sem' = SemAcquire(sem)
                  /\ wpc' = [wpc EXCEPT ![w] = "fetching"]
                  /\ wurl' = [wurl EXCEPT ![w] = Head(queue)]
                  /\ fetched' = [fetched EXCEPT ![Head(queue)] = @ + 1]
                  /\ cpu' = 0
                  /\ UNCHANGED unfinished

\* worker: fetch returns; the record is built, appended and marked
\* (lines 2128-2144).
FetchReturn(w, res) ==
  /\ mainpc = "join"
  /\ wpc[w] = "fetching"
  /\ cpu = 0
  /\ lock = 0
  /\ badpages' = IF HasBody(res) /\ ExtractorRaises(res[1])
                  THEN badpages \cup {wurl[w]}
                  ELSE badpages
  /\ UNCHANGED <<rl, ft, rv, ioFailed, urls, disk, mainpc, queue, df_tmp, hist>>
  /\ IF WorkerRaises(wurl[w], res)
     THEN \* the exception leaves worker and queue_worker; finally: task_done()
          /\ sem' = SemRelease(sem)
          /\ unfinished' = unfinished - 1
          /\ wpc' = [wpc EXCEPT ![w] = "failed"]
          /\ wurl' = [wurl EXCEPT ![w] = 0]
          /\ cpu' = 0
          /\ UNCHANGED <<buffer, processed, lock>>
     ELSE /\ buffer' = BufferAppend(buffer, WorkerRecord(wurl[w], res))
          /\ processed' = MarkDone(processed, wurl[w], res)
          /\ cpu' = w
          /\ IF Len(buffer') >= SAVE_EVERY
             THEN /\ lock' = w
                  /\ wpc' = [wpc EXCEPT ![w] = "flush_open"]
                  /\ UNCHANGED <<wurl, sem, unfinished>>
             ELSE /\ lock' = 0
                  /\ sem' = SemRelease(sem)
                  /\ unfinished' = unfinished - 1
                  /\ wpc' = [wpc EXCEPT ![w] = "ready"]
                  /\ wurl' = [wurl EXCEPT ![w] = 0]

\* worker: lines 2145-2149 up to the open of OUT_CSV by to_csv.
FlushOpen(w) ==
  /\ wpc[w] = "flush_open"
  /\ cpu = w
  /\ UNCHANGED <<rl, ft, rv, hist2, urls, checkpoint, mainpc, processed, buffer, queue, hist>>
  /\ IF ReadRaises
     THEN \* the exception leaves worker and queue_worker; finally: task_done()
          /\ lock' = 0
          /\ sem' = SemRelease(sem)
          /\ unfinished' = unfinished - 1
          /\ wpc' = [wpc EXCEPT ![w] = "failed"]
          /\ wurl' = [wurl EXCEPT ![w] = 0]
          /\ cpu' = 0
          /\ UNCHANGED <<out_csv, df_tmp>>
     ELSE /\ df_tmp' = MergedFrame
          /\ out_csv' = CsvOpened
          /\ wpc' = [wpc EXCEPT ![w] = "flush_write"]
          /\ UNCHANGED <<lock, sem, unfinished, wurl, cpu>>

\* worker: to_csv completes and buffer.clear() (lines 2149-2150).
FlushWrite(w) ==
  /\ wpc[w] = "flush_write"
  /\ cpu = w
  /\ out_csv' = CsvWritten(df_tmp)
  /\ written' = written \cup Keys(buffer)
  /\ buffer' = <<>>
  /\ df_tmp' = <<>>
  /\ wpc' = [wpc EXCEPT ![w] = "ckpt_open"]
  /\ UNCHANGED <<rl, ft, rv, hist2, urls, checkpoint, mainpc, processed, queue, unfinished, wurl,
                 lock, sem, cpu, run, loaded, rows0, fetched, cleanHist>>

\* worker: open(CHECKPOINT_FILE, "w") (line 2151).
CkptOpen(w) ==
  /\ wpc[w] = "ckpt_open"
  /\ cpu = w
  /\ checkpoint' = CkptOpened
  /\ wpc' = [wpc EXCEPT ![w] = "ckpt_write"]
  /\ UNCHANGED <<rl, ft, rv, hist2, urls, out_csv, mainpc, processed, buffer, queue, unfinished, wurl,
                 lock, sem, cpu, df_tmp, hist>>

\* worker: json.dump(list(processed), f) (line 2151).
CkptWrite(w) ==
  /\ wpc[w] = "ckpt_write"
  /\ cpu = w
  /\ checkpoint' = CkptWritten(processed)
  /\ wpc' = [wpc EXCEPT ![w] = "flushed"]
  /\ UNCHANGED <<rl, ft, rv, hist2, urls, out_csv, mainpc, processed, buffer, queue, unfinished, wurl,
                 lock, sem, cpu, df_tmp, hist>>

\* worker: the lock and the semaphore are released, worker returns,
\* finally: queue.task_done() (lines 2139, 2127, 2165).
FlushDone(w) ==
  /\ wpc[w] = "flushed"
  /\ cpu = w
  /\ lock' = 0
  /\ sem' = SemRelease(sem)
  /\ unfinished' = unfinished - 1
  /\ wpc' = [wpc EXCEPT ![w] = "ready"]
  /\ wurl' = [wurl EXCEPT ![w] = 0]
  /\ UNCHANGED <<rl, ft, rv, hist2, urls, disk, mainpc, processed, buffer, queue, cpu, df_tmp, hist>>

\* main: queue.join() returns, the workers are cancelled (lines 2168-2171).
MainJoin ==
  /\ mainpc = "join"
  /\ unfinished = 0
  /\ cpu = 0
  /\ wpc' = [w \in Workers |->
               IF wpc[w] \in {"exited", "failed"} THEN wpc[w] ELSE "cancelled"]
  /\ mainpc' = "final"
  /\ cpu' = MainId
  /\ UNCHANGED <<rl, ft, rv, hist2, urls, disk, processed, buffer, queue, unfinished, wurl, lock, sem,
                 df_tmp, hist>>

\* main: lines 2173-2179 up to the open of OUT_CSV by to_csv.
MainFinalOpen ==
  /\ mainpc = "final"
  /\ UNCHANGED <<rl, ft, rv, hist2, urls, checkpoint, processed, buffer, queue, unfinished, wpc, wurl,
                 lock, sem, hist>>
  /\ IF buffer = <<>>
     THEN /\ mainpc' = "final_ckpt_open"
          /\ UNCHANGED <<out_csv, df_tmp, cpu>>
     ELSE IF ReadRaises
     THEN \* the exception leaves main: the process exits
          /\ mainpc' = "crashed"
          /\ cpu' = 0
          /\ UNCHANGED <<out_csv, df_tmp>>
     ELSE /\ df_tmp' = MergedFrame
          /\ out_csv' = CsvOpened
          /\ mainpc' = "final_write"
          /\ UNCHANGED cpu

\* main: to_csv completes (line 2179).
MainFinalWrite ==
  /\ mainpc = "final_write"
  /\ out_csv' = CsvWritten(df_tmp)
  /\ written' = written \cup Keys(buffer)
  /\ df_tmp' = <<>>
  /\ mainpc' = "final_ckpt_open"
  /\ UNCHANGED <<rl, ft, rv, hist2, urls, checkpoint, processed, buffer, queue, unfinished, wpc, wurl,
                 lock, sem, cpu, run, loaded, rows0, fetched, cleanHist>>

\* main: open(CHECKPOINT_FILE, "w") (line 2181).
MainCkptOpen ==
  /\ mainpc = "final_ckpt_open"
  /\ checkpoint' = CkptOpened
  /\ mainpc' = "final_ckpt_write"
  /\ UNCHANGED <<rl, ft, rv, hist2, urls, out_csv, processed, buffer, queue, unfinished, wpc, wurl,
                 lock, sem, cpu, df_tmp, hist>>

\* main: json.dump(list(processed), f), then the process exits (lines 2181-2185).
MainCkptWrite ==
  /\ mainpc = "final_ckpt_write"
  /\ checkpoint' = CkptWritten(processed)
  /\ mainpc' = "done"
  /\ cpu' = 0
  /\ UNCHANGED <<rl, ft, rv, hist2, urls, out_csv, processed, buffer, queue, unfinished, wpc, wurl,
                 lock, sem, df_tmp, hist>>

\* worker: to_csv (line 2149) or the open / json.dump of the checkpoint
\* (line 2151) raises an OSError, before or after the file was truncated.
\* Nothing catches it: it leaves worker and queue_worker (finally:
\* task_done()), and only this task ends.
W_WriteFails(w) ==
  /\ wpc[w] \in {"flush_open", "flush_write", "ckpt_open", "ckpt_write"}
  /\ wpc[w] = "flush_open" => ~ReadRaises
  /\ cpu = w
  /\ ioFailed' = TRUE
  /\ lock' = 0
  /\ sem' = SemRelease(sem)
  /\ unfinished' = unfinished - 1
  /\ wpc' = [wpc EXCEPT ![w] = "failed"]
  /\ wurl' = [wurl EXCEPT ![w] = 0]
  /\ cpu' = 0
  /\ df_tmp' = <<>>
  /\ UNCHANGED <<rl, ft, rv, badpages, urls, disk, mainpc, processed, buffer, queue, hist>>

\* main: to_csv (line 2179) or the write of the checkpoint (line 2181) raises
\* an OSError; the exception leaves main and the process exits.
M_WriteFails ==
  /\ \/ mainpc = "final" /\ buffer # <<>> /\ ~ReadRaises
     \/ mainpc \in {"final_write", "final_ckpt_open", "final_ckpt_write"}
  /\ ioFailed' = TRUE
  /\ mainpc' = "crashed"
  /\ cpu' = 0
  /\ df_tmp' = <<>>
  /\ UNCHANGED <<rl, ft, rv, badpages, urls, disk, processed, buffer, queue, unfinished, wpc,
                 wurl, lock, sem, hist>>

\* The process is killed (SIGKILL, power loss): memory is gone, files stay.
JustFlushed == \E w \in Workers : wpc[w] = "flushed"
Kill ==
  /\ ~Stopped
  /\ mainpc' = "killed"
  /\ cleanHist' = (cleanHist /\ JustFlushed)
  /\ MemoryGone
  /\ UNCHANGED <<rl, ft, rv, hist2, urls, disk, run, loaded, rows0, fetched, written>>

Next ==
  \/ Start
  \/ \E w \in Workers : QW_Next(w)
  \/ \E w \in Workers, res \in FetchResults : FetchReturn(w, res)
  \/ \E w \in Workers : FlushOpen(w)
  \/ \E w \in Workers : FlushWrite(w)
  \/ \E w \in Workers : CkptOpen(w)
  \/ \E w \in Workers : CkptWrite(w)
  \/ \E w \in Workers : FlushDone(w)
  \/ MainJoin
  \/ MainFinalOpen
  \/ MainFinalWrite
  \/ MainCkptOpen
  \/ MainCkptWrite
  \/ Kill

Spec == Init /\ [][Next]_vars

\* ------------------------------------------- runs in which writes can fail
\* The orchestrator before its first launch, whatever its input list.
OrchOff ==
  /\ out_csv = NoFile
  /\ checkpoint = NoCkpt
  /\ mainpc = "off"
  /\ processed = {}
  /\ buffer = <<>>
  /\ queue = <<>>
  /\ unfinished = 0
  /\ wpc = [w \in Workers |-> "none"]
  /\ wurl = [w \in Workers |-> 0]
  /\ lock = 0
  /\ sem = CONCURRENCY
  /\ cpu = 0
  /\ df_tmp = <<>>
  /\ run = 0
  /\ loaded = {}
  /\ rows0 = <<>>
  /\ fetched = [u \in URLS |-> 0]
  /\ written = {}
  /\ cleanHist = TRUE
  /\ ioFailed = FALSE
  /\ badpages = {}

\* Input lists long enough for every worker to meet a flush and leave URLs
\* in the queue.
IOInputLists == SeqsUpTo(URLS, SAVE_EVERY + CONCURRENCY)
InitIO ==
  /\ urls \in IOInputLists
  /\ OrchOff
  /\ RLConstructed(1)
  /\ FetchIdle
  /\ RecIdle

\* The first run, every step of it, and the failure of any of its writes; the
\* process is not killed from outside.
FirstStart == run = 0 /\ Start
NextIO ==
  \/ FirstStart
  \/ \E w \in Workers : QW_Next(w)
  \/ \E w \in Workers, res \in FetchResults : FetchReturn(w, res)
  \/ \E w \in Workers : FlushOpen(w)
  \/ \E w \in Workers : FlushWrite(w)
  \/ \E w \in Workers : CkptOpen(w)
  \/ \E w \in Workers : CkptWrite(w)
  \/ \E w \in Workers : FlushDone(w)
  \/ MainJoin
  \/ MainFinalOpen
  \/ MainFinalWrite
  \/ MainCkptOpen
  \/ MainCkptWrite
  \/ \E w \in Workers : W_WriteFails(w)
  \/ M_WriteFails

SpecIO == InitIO /\ [][NextIO]_vars

\* ---------------------------------------- runs over malformed pages
\* The server's pages can be ones on which the extraction code raises.
NextParse ==
  \/ Start
  \/ \E w \in Workers : QW_Next(w)
  \/ \E w \in Workers, res \in ParseResults : FetchReturn(w, res)
  \/ \E w \in Workers : FlushOpen(w)
  \/ \E w \in Workers : FlushWrite(w)
  \/ \E w \in Workers : CkptOpen(w)
  \/ \E w \in Workers : CkptWrite(w)
  \/ \E w \in Workers : FlushDone(w)
  \/ MainJoin
  \/ MainFinalOpen
  \/ MainFinalWrite
  \/ MainCkptOpen
  \/ MainCkptWrite
  \/ Kill

SpecParse == Init /\ [][NextParse]_vars

\* ------------------------------------------- the RateLimiter on its own
\* A limiter of any rate up to MaxRpm, shared by NCallers tasks.
InitRL ==
  /\ urls = <<>>
  /\ out_csv = NoFile
  /\ checkpoint = NoCkpt
  /\ mainpc = "off"
  /\ processed = {}
  /\ buffer = <<>>
  /\ queue = <<>>
  /\ unfinished = 0
  /\ wpc = [w \in Workers |-> "none"]
  /\ wurl = [w \in Workers |-> 0]
  /\ lock = 0
  /\ sem = CONCURRENCY
  /\ cpu = 0
  /\ df_tmp = <<>>
  /\ run = 0
  /\ loaded = {}
  /\ rows0 = <<>>
  /\ fetched = [u \in URLS |-> 0]
  /\ written = {}
  /\ cleanHist = TRUE
  /\ ioFailed = FALSE
  /\ badpages = {}
  /\ RecIdle
  /\ FetchIdle
  /\ \E rpm \in 1..MaxRpm : RLConstructed(rpm)

NextRL ==
  \/ \E c \in Callers : RL_Call(c)
  \/ \E c \in Callers : RL_Try(c)
  \/ \E c \in Callers : RL_Wake(c)
  \/ RL_Tick

SpecRL == InitRL /\ [][NextRL]_vars

\* ------------------------------------------ constructing a RateLimiter
\* No limiter exists yet; one is then constructed with any rate, zero and
\* negative rates included, and used by the callers.
InitCtor ==
  /\ urls = <<>>
  /\ out_csv = NoFile
  /\ checkpoint = NoCkpt
  /\ mainpc = "off"
  /\ processed = {}
  /\ buffer = <<>>
  /\ queue = <<>>
  /\ unfinished = 0
  /\ wpc = [w \in Workers |-> "none"]
  /\ wurl = [w \in Workers |-> 0]
  /\ lock = 0
  /\ sem = CONCURRENCY
  /\ cpu = 0
  /\ df_tmp = <<>>
  /\ run = 0
  /\ loaded = {}
  /\ rows0 = <<>>
  /\ fetched = [u \in URLS |-> 0]
  /\ written = {}
  /\ cleanHist = TRUE
  /\ ioFailed = FALSE
  /\ badpages = {}
  /\ RecIdle
  /\ FetchIdle
  /\ capacity = 0
  /\ tokens = 0
  /\ last = 0
  /\ now = 0
  /\ rlpc = [c \in Callers |-> "none"]
  /\ grants = <<>>
  /\ granted = 0

NextCtor ==
  \/ \E rpm \in (0 - MaxRpm)..MaxRpm : RL_Init(rpm)
  \/ \E c \in Callers : RL_Call(c)
  \/ \E c \in Callers : RL_Try(c)
  \/ \E c \in Callers : RL_Wake(c)
  \/ RL_Tick

SpecCtor == InitCtor /\ [][NextCtor]_vars

\* ------------------------------------------- the record of one work item
\* Any snapshot URL and any return of fetch for it.
InitRec ==
  /\ urls = <<>>
  /\ OrchOff
  /\ RLConstructed(1)
  /\ FetchIdle
  /\ ritem \in UrlItems
  /\ rres \in FetchReturns
  /\ rrec = init_record(None)
  /\ rpc = "fetched"

NextRec == R_Build

SpecRec == InitRec /\ [][NextRec]_vars

\* ------------------------------------- one worker, its items one by one
\* Lists of at most MaxItems items, and the checkpoints a launch can load.
ItemLists == SeqsUpTo(1..MaxItems, MaxItems)
LoadedSets == {{}, {1}}
ItemStatuses == {200, 404, 503}
ItemExceptions == {"TimeoutError"}

\* main: the checkpoint is loaded and the queue filled (lines 2104, 2154-2157).
I_Start(q, p) ==
  /\ mainpc = "off"
  /\ mainpc' = "join"
  /\ urls' = q
  /\ queue' = q
  /\ processed' = p
  /\ loaded' = p
  /\ UNCHANGED <<out_csv, checkpoint, buffer, unfinished, wpc, wurl, lock, sem,
                 cpu, df_tmp, run, rows0, fetched, written, cleanHist, ioFailed,
                 badpages, rv, rl, ft>>

\* queue_worker takes the next URL; worker returns at once if it is in
\* processed, else it calls fetch (lines 2160-2161, 2124-2128, 279-280).
I_Take ==
  /\ mainpc = "join"
  /\ fpc = "idle"
  /\ queue # <<>>
  /\ queue' = Tail(queue)
  /\ IF IsDone(processed, Head(queue))
     THEN UNCHANGED <<wurl, fetched, ft>>
     ELSE /\ wurl' = [wurl EXCEPT ![1] = Head(queue)]
          /\ fetched' = [fetched EXCEPT ![Head(queue)] = @ + 1]
          /\ fpc' = LoopTop
          /\ fattempt' = 1
          /\ flast' = None
          /\ fstatus' = 0
          /\ fsleeps' = <<>>
          /\ fonly503' = TRUE
          /\ ftransient' = TRUE
          /\ fcause' = None
          /\ UNCHANGED <<fresult, freqs>>
  /\ UNCHANGED <<urls, out_csv, checkpoint, mainpc, processed, buffer, unfinished, wpc,
                 lock, sem, cpu, df_tmp, run, loaded, rows0, written, cleanHist,
                 ioFailed, badpages, rv, rl>>

\* fetch has returned: the URL is marked (line 2141) and worker returns; the
\* locals of that call of fetch are gone.
I_Done ==
  /\ mainpc = "join"
  /\ fpc = "returned"
  /\ processed' = MarkDone(processed, wurl[1], fresult)
  /\ wurl' = [wurl EXCEPT ![1] = 0]
  /\ fpc' = "idle"
  /\ fattempt' = 0
  /\ flast' = None
  /\ fresult' = <<None, None>>
  /\ fstatus' = 0
  /\ fsleeps' = <<>>
  /\ fonly503' = TRUE
  /\ ftransient' = TRUE
  /\ fcause' = None
  /\ UNCHANGED <<urls, out_csv, checkpoint, mainpc, buffer, queue, unfinished, wpc,
                 lock, sem, cpu, df_tmp, run, loaded, rows0, fetched, written,
                 cleanHist, ioFailed, badpages, rv, rl, freqs>>

NextItems ==
  \/ \E q \in ItemLists, p \in LoadedSets : I_Start(q, p)
  \/ I_Take
  \/ F_Acquire
  \/ \E s \in ItemStatuses : F_Status(s)
  \/ \E e \in ItemExceptions : F_Raise(e)
  \/ F_Sleep
  \/ I_Done
  \/ RL_Tick

SpecItems == InitRL /\ [][NextItems]_vars

\* ------------------------------------------------- one call of fetch
\* One call of fetch against a server that answers anything, through a
\* limiter of any rate up to MaxRpm.
NextFetch ==
  \/ F_Call
  \/ F_Acquire
  \/ \E s \in Statuses : F_Status(s)
  \/ \E e \in Exceptions : F_Raise(e)
  \/ F_Sleep
  \/ RL_Tick

SpecFetch == InitRL /\ [][NextFetch]_vars

\* ===================================================================
\* Properties
\* ===================================================================
IsPrefix(a, b) == Len(a) <= Len(b) /\ \A i \in 1..Len(a) : a[i] = b[i]
OneRowPerUrl == /\ Len(out_csv.rows) = Len(urls)
                /\ \A u \in Range(urls) : Count(out_csv.rows, u) = 1

\* C1: over pairwise-distinct input URLs and any sequence of runs (killed or
\* not), OUT_CSV never holds two rows for one snapshot URL, and when a run
\* has completed it holds exactly one row per input URL.
C1_NoDuplicateRows ==
  Distinct(urls) =>
    /\ \A u \in URLS : Count(out_csv.rows, u) <= 1
    /\ mainpc = "done" => OneRowPerUrl

\* C2: in every state (each one a point at which the process can be killed)
\* every key of the checkpoint file on disk has a row in OUT_CSV on disk, and
\* the records a kill would lose (rows the table held at launch and records
\* produced by this run that are not in the table) are at most one batch.
LostByKill ==
  {u \in Keys(rows0) \cup (processed \ loaded) : u \notin Keys(out_csv.rows)}
\* C2 (formula): checkpointed keys are recorded on disk and a kill loses at
\* most one batch.
C2_CheckpointedIsRecorded ==
  /\ checkpoint.keys \subseteq Keys(out_csv.rows)
  /\ Cardinality(LostByKill) <= SAVE_EVERY

\* C3: a key of the processed set that was not loaded at startup has its
\* record in the buffer or in a completed write of OUT_CSV (and, when no
\* rewrite is in progress, in OUT_CSV itself); the processed set grows only
\* in the step that appends a record of that key to the buffer.
C3_Recorded ==
  /\ \A k \in processed \ loaded : k \in Keys(buffer) \/ k \in written
  /\ out_csv.hdr => written \subseteq Keys(out_csv.rows)
C3_MarkedWithAppend ==
  (mainpc = "join" /\ mainpc' = "join") =>
    \A k \in processed' \ processed :
      /\ Len(buffer') = Len(buffer) + 1
      /\ buffer'[Len(buffer')].snapshot_url = k
\* C3 (formula): the invariant and the step property above, together.
C3_DataBeforeCheckpoint == []C3_Recorded /\ [][C3_MarkedWithAppend]_vars
C3_Witness ==
  /\ mainpc = "join"
  /\ \E k \in processed \ loaded : k \in written /\ k \notin Keys(buffer)
  /\ \E k \in processed \ loaded : k \in Keys(buffer) /\ k \notin written

\* C4: a completed first run (no checkpoint, no table before it) over N
\* pairwise-distinct URLs leaves exactly N rows, one per input URL,
\* whatever the fetch outcomes.
C4_OneRowPerItem ==
  (run = 1 /\ mainpc = "done" /\ Distinct(urls)) => OneRowPerUrl
C4_Witness ==
  /\ run = 1 /\ mainpc = "done" /\ Distinct(urls) /\ Len(urls) = MaxUrls
  /\ OneRowPerUrl
  /\ \E i, j \in 1..Len(out_csv.rows) :
       out_csv.rows[i].error = "" /\ out_csv.rows[j].error = "HTTP 404"

\* C5: when every earlier process end was a normal exit or a kill right after
\* a completed periodic flush, the restarted run fetches no URL of the
\* checkpoint it loaded, and when it completes OUT_CSV holds one row per
\* input URL, as after an uninterrupted run (C4).
C5_CrashResume ==
  (run >= 2 /\ cleanHist /\ Distinct(urls)) =>
    /\ \A u \in loaded : fetched[u] = 0
    /\ mainpc = "done" => OneRowPerUrl
C5_Witness ==
  /\ run >= 2 /\ cleanHist /\ Distinct(urls) /\ mainpc = "done"
  /\ loaded # {} /\ loaded # Range(urls)
  /\ \E u \in Range(urls) : fetched[u] = 1
  /\ OneRowPerUrl

\* C6: for an input URL that is in the checkpoint loaded at startup, the run
\* never calls fetch (so acquires no token and issues no request), appends
\* no record, and OUT_CSV gets no new row.
C6_SkippedUntouched ==
  \A u \in loaded :
    /\ fetched[u] = 0
    /\ u \notin Keys(buffer)
    /\ Count(out_csv.rows, u) <= Count(rows0, u)
    /\ Count(df_tmp, u) <= Count(rows0, u)
C6_Witness ==
  /\ mainpc = "done"
  /\ \E u \in loaded : u \in Range(urls) /\ Count(out_csv.rows, u) = 1
  /\ \E u \in Range(urls) : fetched[u] = 1

\* C7: after a kill the checkpoint file on disk is a complete checkpoint
\* (the previous one or the new one), never an empty or truncated file, and
\* the next startup can load it.
C7_CheckpointNeverTorn ==
  mainpc = "killed" => ~LoadRaises

\* C8: the rows OUT_CSV held when the run was launched are still in it,
\* unaltered, when the run has completed and when it has been killed.
C8_RowsKept ==
  mainpc \in {"done", "killed"} => IsPrefix(rows0, out_csv.rows)

\* C9: at most capacity acquire() calls return in any window of 60 seconds
\* (grants holds the returns of the last 60 seconds).
C9_WindowBound == Len(grants) <= capacity

\* C10: a call returns only in a step that finds the refilled count at least
\* one token and takes exactly one token in that step; a call that finds less
\* does not return; the tokens handed out never exceed the tokens supplied
\* (the initial capacity plus the refill).
C10_Step ==
  \A c \in Callers :
    rlpc[c] = "try" =>
      /\ rlpc'[c] = "idle" =>
           /\ Refill(capacity, tokens, now - last) >= OneToken
           /\ tokens' = Refill(capacity, tokens, now - last) - OneToken
      /\ Refill(capacity, tokens, now - last) < OneToken => rlpc'[c] # "idle"
C10_NoDoubleSpend ==
  granted * OneToken + tokens <= capacity * OneToken + now * capacity
\* C10 (formula): the step property and the supply bound above, together.
C10_AtomicAcquire == []C10_NoDoubleSpend /\ [][C10_Step]_vars
C10_Witness ==
  /\ granted > capacity
  /\ \E c, d \in Callers : c # d /\ rlpc[c] = "sleep" /\ rlpc[d] = "sleep"

\* C11: a RateLimiter that exists (its callers can call acquire) was
\* constructed with a rate of at least 1: a rate of 0 or below is refused
\* and leaves no limiter.
C11_RejectsNonPositive ==
  (\E c \in Callers : rlpc[c] # "none") => capacity >= 1

\* C12: once the server has answered an attempt with a status other than
\* 200, 429, 502, 503 and 504, fetch has returned (None, "HTTP <status>") at
\* that attempt: it slept only after the earlier attempts and issued one
\* request per attempt, so exactly one if this was the first attempt.
C12_Terminal == Statuses \ {200, 429, 502, 503, 504}
C12_TerminalStatus ==
  fstatus \in C12_Terminal =>
    /\ fpc = "returned"
    /\ fresult = <<None, HttpErr(fstatus)>>
    /\ freqs = fattempt
    /\ Len(fsleeps) = freqs - 1
C12_Witness ==
  /\ fstatus = 404
  /\ fpc = "returned"
  /\ freqs = 1
  /\ fsleeps = <<>>

\* C13: fetch does not return on a 429, 502, 503 or 504 received before the
\* last allowed attempt: a fetch that has returned with such a status as its
\* last answer was at its last attempt.
C13_TransientRetried ==
  (fpc = "returned" /\ fstatus \in {429, 502, 503, 504}) => fattempt = MaxAttempts

\* C14: after 503 on the first k attempts and 200 on attempt k+1, fetch has
\* returned the body with no error after exactly k+1 requests and k sleeps,
\* the sleep after attempt i being at least 1.8^i seconds; for k = 2 the
\* sleeps add up to at least 1.8 + 3.24 = 5.04 seconds.
C14_MinSleep(i) == Pow(BaseTenths, i) * Pow(10, MaxAttempts - i)
C14_RetryThenSuccess ==
  (fpc = "returned" /\ fonly503 /\ fstatus = 200) =>
    /\ fresult[1] \in Bodies
    /\ fresult[2] = None
    /\ freqs = fattempt
    /\ freqs <= MaxAttempts
    /\ Len(fsleeps) = freqs - 1
    /\ \A i \in 1..Len(fsleeps) : fsleeps[i] >= C14_MinSleep(i)
    /\ Len(fsleeps) = 2 => fsleeps[1] + fsleeps[2] >= 50400000
C14_Witness ==
  /\ fpc = "returned"
  /\ fonly503
  /\ fstatus = 200
  /\ freqs = 3
  /\ Len(fsleeps) = 2

\* C15: when every attempt failed with a retried status or an exception,
\* fetch has issued exactly MaxAttempts requests when it returns, and it
\* returns no content and an error that describes the last failure.
C15_ExhaustedCause ==
  (fpc = "returned" /\ ftransient) =>
    /\ freqs = MaxAttempts
    /\ fresult = <<None, fcause>>

\* C16: within one run fetch is invoked at most once for any URL, whatever
\* the input list, lists naming a URL twice included.
C16_FetchedOnce == \A u \in URLS : fetched[u] <= 1

\* C17: at most CONCURRENCY items are in progress (fetch started, record not
\* yet appended), because each of them holds one of the CONCURRENCY slots of
\* the semaphore: the free slots and the holders always add up to CONCURRENCY.
C17_InProgress == {w \in Workers : wpc[w] = "fetching"}
C17_Holding ==
  {w \in Workers :
     wpc[w] \in {"fetching", "flush_open", "flush_write", "ckpt_open",
                 "ckpt_write", "flushed"}}
C17_BoundedConcurrency ==
  /\ Cardinality(C17_InProgress) <= CONCURRENCY
  /\ C17_InProgress \subseteq C17_Holding
  /\ sem >= 0
  /\ sem + Cardinality(C17_Holding) = CONCURRENCY
C17_Witness ==
  /\ Cardinality(C17_InProgress) = CONCURRENCY
  /\ sem = 0
  /\ queue # <<>>

\* C18: when a run in which every fetch returned and no write failed has
\* exited, OUT_CSV holds a row for every record produced in the run and the
\* checkpoint file holds every input URL.
C18_ExitComplete ==
  mainpc \in {"done", "crashed"} =>
    /\ (processed \ loaded) \subseteq Keys(out_csv.rows)
    /\ checkpoint.exists /\ checkpoint.valid
    /\ Range(urls) \subseteq checkpoint.keys

\* C19: once a write of OUT_CSV or of the checkpoint has failed, no step of
\* the same run starts a fetch or adds a key to processed.
C19_StopsAfterWriteError ==
  [][(ioFailed /\ ioFailed') =>
       (fetched' = fetched /\ processed' \subseteq processed)]_vars

\* C20: whatever the fetched content, the step in which a worker's fetch
\* returns appends a record for its URL to the buffer and marks the URL, and
\* the worker goes on; a run that completes has handled every input URL and
\* its table has a row for every page on which the extractor raised.
C20_Step ==
  \A w \in Workers :
    (wpc[w] = "fetching" /\ wpc'[w] # "fetching" /\ mainpc' = "join") =>
      /\ wpc'[w] # "failed"
      /\ wurl[w] \in processed'
      /\ Len(buffer') = Len(buffer) + 1
      /\ buffer'[Len(buffer')].snapshot_url = wurl[w]
C20_Completed ==
  mainpc = "done" =>
    /\ Range(urls) \subseteq processed
    /\ badpages \subseteq Keys(out_csv.rows)
C20_DispatchNeverRaises == []C20_Completed /\ [][C20_Step]_vars
C20_Witness ==
  /\ mainpc = "done"
  /\ badpages # {}
  /\ processed \ badpages # {}
  /\ badpages \subseteq Keys(out_csv.rows)

\* The item's content was handed to one of the three extractors.
HandedToExtractor ==
  HasBody(rres) /\ extract_year_ts(ritem)[1] \in {"2023", "2024", "2025"}

\* C21: the record built for a snapshot on whose content the extractor raised
\* has a non-null error and null extracted columns.
C21_ExtractorFailureRecord ==
  (rpc = "built" /\ HandedToExtractor /\ ExtractorRaises(rres[1])) =>
    /\ rrec.error # None
    /\ rrec.name = None
    /\ rrec.other = None

\* C22: a record built without its content going to an extractor has a
\* non-null, non-empty error; fetch returned exactly one of content and
\* error; and a record has a null error only if its content went to an
\* extractor that did not raise.
C22_ErrorPopulated ==
  rpc = "built" =>
    /\ ~HandedToExtractor => rrec.error \notin {None, ""}
    /\ (rres[1] # None) # (rres[2] # None)
    /\ rrec.error = None => (HandedToExtractor /\ ~ExtractorRaises(rres[1]))

\* C23: every record built carries its item's URL as snapshot_url and the
\* timestamp extract_year_ts finds in that URL as snapshot_timestamp.
C23_Provenance ==
  rpc = "built" =>
    /\ rrec.snapshot_url = ritem
    /\ rrec.snapshot_timestamp = extract_year_ts(ritem)[2]

\* C24: the step that appends the record of a failed fetch (a record with an
\* error) also marks its URL; when a run completes, every URL with a failure
\* row in OUT_CSV is in the checkpoint file; and a run never fetches a URL
\* that has a failure row and was in the checkpoint it loaded.
C24_FailureRows(rows) == {rows[i].snapshot_url : i \in {j \in 1..Len(rows) : rows[j].error # ""}}
C24_Step ==
  \A w \in Workers :
    (/\ wpc[w] = "fetching" /\ wpc'[w] # "fetching" /\ mainpc' = "join"
     /\ Len(buffer') = Len(buffer) + 1
     /\ buffer'[Len(buffer')].error # None) =>
        wurl[w] \in processed'
C24_Checkpointed ==
  /\ mainpc = "done" => C24_FailureRows(out_csv.rows) \subseteq checkpoint.keys
  /\ \A u \in C24_FailureRows(rows0) \cap loaded : fetched[u] = 0
C24_FailureIsDone == []C24_Checkpointed /\ [][C24_Step]_vars
C24_Witness ==
  /\ run >= 2
  /\ mainpc = "done"
  /\ \E u \in C24_FailureRows(rows0) \cap loaded : u \in Range(urls) /\ fetched[u] = 0
  /\ \E u \in Range(urls) : fetched[u] = 1

\* C25: whenever no worker holds the lock of the append/flush section the
\* buffer holds fewer than SAVE_EVERY records, and when the run has completed
\* every record left in the buffer is in OUT_CSV.
C25_BufferBelowThreshold ==
  /\ lock = 0 => Len(buffer) < SAVE_EVERY
  /\ mainpc = "done" => Keys(buffer) \subseteq Keys(out_csv.rows)

\* C26: a flush, periodic or final, writes the rows the table held followed
\* by the buffered records in buffer order (the frame built when the table
\* is read is exactly that, and the write puts that frame on disk), leaves
\* the buffer empty and leaves processed as it was.
C26_Reads ==
  \/ \E w \in Workers : wpc[w] = "flush_open" /\ wpc'[w] = "flush_write"
  \/ mainpc = "final" /\ mainpc' = "final_write"
C26_Writes ==
  \/ \E w \in Workers : wpc[w] = "flush_write" /\ wpc'[w] = "ckpt_open"
  \/ mainpc = "final_write" /\ mainpc' = "final_ckpt_open"
C26_Step ==
  /\ C26_Reads =>
       MapSeq(df_tmp', ToCsvRow) = out_csv.rows \o MapSeq(buffer, ToCsvRow)
  /\ C26_Writes =>
       /\ out_csv'.rows = MapSeq(df_tmp, ToCsvRow)
       /\ buffer' = <<>>
       /\ processed' = processed
C26_FlushEffect == [][C26_Step]_vars

\* C27: every request was preceded by its own completed acquire(): the
\* requests issued never exceed the tokens granted, a fetch about to issue a
\* request holds a token no request has used, no token is granted without a
\* request following, and a URL of the loaded checkpoint starts no fetch; the
\* step that skips such a URL leaves the limiter as it is.
C27_Counts ==
  /\ freqs <= granted
  /\ granted = freqs + (IF fpc = "get" THEN 1 ELSE 0)
  /\ \A u \in loaded : fetched[u] = 0
C27_SkipStep ==
  (queue # <<>> /\ queue' = Tail(queue) /\ Head(queue) \in processed) =>
    /\ tokens' = tokens
    /\ granted' = granted
    /\ freqs' = freqs
    /\ fpc' = "idle"
C27_AcquireBeforeRequest == []C27_Counts /\ [][C27_SkipStep]_vars
C27_Witness ==
  /\ \E u \in loaded : u \in Range(urls)
  /\ queue = <<>>
  /\ wurl[1] \notin loaded
  /\ fpc = "get"
  /\ fattempt >= 2
  /\ freqs >= 1

\* C28: when a periodic flush has completed, the checkpoint file holds
\* exactly the processed set and every key this run added to processed has
\* a row in OUT_CSV; between the table write and the checkpoint write of a
\* flush no step of the run changes the buffer or the processed set.
C28_AfterFlush ==
  JustFlushed =>
    /\ checkpoint.exists /\ checkpoint.valid
    /\ checkpoint.keys = processed
    /\ (processed \ loaded) \subseteq Keys(out_csv.rows)
    /\ buffer = <<>>
C28_Step ==
  ((\E w \in Workers : wpc[w] \in {"ckpt_open", "ckpt_write"}) /\ mainpc' = "join") =>
    /\ buffer' = buffer
    /\ processed' = processed
    /\ out_csv' = out_csv
C28_FlushAtomic == []C28_AfterFlush /\ [][C28_Step]_vars
C28_Witness ==
  /\ JustFlushed
  /\ \E v \in Workers : wpc[v] = "fetching"
  /\ Cardinality(processed \ loaded) >= SAVE_EVERY
  /\ Len(out_csv.rows) >= SAVE_EVERY

\* C29: the token count stays between 0 and capacity, and every turn of
\* acquire() first adds elapsed * capacity / 60 tokens, capped at capacity,
\* and then tests that sum: it takes one token if the sum is at least one
\* token and leaves the sum otherwise (tokens are counted in sixtieths).
C29_Range == 0 <= tokens /\ tokens <= capacity * SecondsPerMinute
C29_Added ==
  IF tokens + (now - last) * capacity <= capacity * SecondsPerMinute
  THEN tokens + (now - last) * capacity
  ELSE capacity * SecondsPerMinute
C29_Step ==
  \A c \in Callers :
    (rlpc[c] = "try" /\ rlpc'[c] # "try") =>
      /\ last <= now
      /\ last' = now
      /\ tokens' = IF C29_Added >= SecondsPerMinute
                   THEN C29_Added - SecondsPerMinute
                   ELSE C29_Added
      /\ (rlpc'[c] = "idle") = (C29_Added >= SecondsPerMinute)
C29_BucketBounds == []C29_Range /\ [][C29_Step]_vars
C29_Witness ==
  /\ capacity = 1
  /\ granted >= 2
  /\ tokens = 0
  /\ last > SecondsPerMinute

\* C30: a run in which exceptions escaped workers still ends: main is never
\* left waiting in queue.join() with URLs unaccounted for and no
\* queue_worker task alive to take them.
C30_NoStuckRun ==
  (mainpc = "join" /\ \A w \in Workers : wpc[w] \in {"failed", "exited"}) =>
    unfinished = 0

====
